---- MODULE Spec2Model ----
(***************************************************************************)
(* Model of .github/scripts/generate_suggestions.py: one run of main(),    *)
(* from reading the input files to writing the report.  Texts are TLA+     *)
(* strings; the Python string operations the script uses are operators     *)
(* over them.  The emoji of the two block headings are written ":snake:"   *)
(* and ":atom:" (a TLA+ string holds no such character).                   *)
(***************************************************************************)
EXTENDS Integers, Sequences, FiniteSets, TLC

VARIABLES
    pc,                 \* position of main(): see the actions
    API_KEY,            \* module global read from the environment (Opt)
    diffFile,           \* file named by --diff
    changedFile,        \* file named by --changed-files
    openapiArg,         \* args.openapi: [given |-> BOOLEAN, file |-> File]
    outFile,            \* file named by --out
    stdout,             \* what print() wrote, in order
    diff_content,       \* main: Opt
    changed_files_list, \* main: Opt
    openapi_content,    \* main: Opt
    changed_files,      \* main: sequence of paths
    lines,              \* diff_content.splitlines(), the scan's input
    idx,                \* next line of the scan (1-based)
    py_files,           \* handle_python_changes
    py_diff_sections,
    py_src,             \* history: for each element of py_diff_sections, the
                        \* index of the diff line it was made from
    py_diff,
    py_suggestions,
    fe_files,           \* handle_frontend_changes
    fe_diff_sections,
    fe_src,
    fe_diff,
    fe_suggestions,
    prompt,             \* the prompt handed to call_llm
    all_suggestions,
    llm,                \* history: call_llm's invocations, in order
    events,             \* history: the run's steps, in order
    exception           \* the exception that ended the run, "" if none

vars == <<pc, API_KEY, diffFile, changedFile, openapiArg, outFile, stdout,
          diff_content, changed_files_list, openapi_content, changed_files,
          lines, idx, py_files, py_diff_sections, py_src, py_diff,
          py_suggestions, fe_files, fe_diff_sections, fe_src, fe_diff,
          fe_suggestions, prompt, all_suggestions, llm, events, exception>>

---------------------------------------------------------------------------
(* Bounds of the model *)

\* the longest diff, in lines
MaxLines == 3

---------------------------------------------------------------------------
(* Python values and string operations *)

\* an optional string: None, or a str
None == [some |-> FALSE, v |-> ""]
Some(s) == [some |-> TRUE, v |-> s]

\* Python truthiness of an optional string: None and "" are falsy
Truthy(o) == o.some /\ o.v # ""

Min(a, b) == IF a < b THEN a ELSE b

\* s.startswith(p)
StartsWith(s, p) == Len(s) >= Len(p) /\ SubSeq(s, 1, Len(p)) = p

\* s.endswith(p)
EndsWith(s, p) == Len(s) >= Len(p) /\ SubSeq(s, Len(s) - Len(p) + 1, Len(s)) = p

\* p in s
Contains(s, p) == \E i \in 1..(Len(s) - Len(p) + 1) : SubSeq(s, i, i + Len(p) - 1) = p

\* s[:n]
Take(s, n) == SubSeq(s, 1, Min(n, Len(s)))

\* the positions of c in s
Positions(s, c) == {i \in 1..Len(s) : SubSeq(s, i, i) = c}

\* s.splitlines(), for texts whose only line boundary is "\n": the pieces
\* between the line feeds, with no empty last piece after a final line feed
RECURSIVE SplitFrom(_, _, _)
SplitFrom(s, from, nls) ==
    IF from > Len(s) THEN <<>>
    ELSE LET after == {i \in nls : i >= from}
         IN IF after = {} THEN <<SubSeq(s, from, Len(s))>>
            ELSE LET nl == CHOOSE i \in after : \A j \in after : i <= j
                 IN <<SubSeq(s, from, nl - 1)>> \o SplitFrom(s, nl + 1, nls)

SplitLines(s) == SplitFrom(s, 1, Positions(s, "\n"))

\* s.split('/')[-1]: what follows the last "/", the whole of s without one
LastSegment(s) ==
    LET sl == Positions(s, "/")
    IN IF sl = {} THEN s
       ELSE LET last == CHOOSE i \in sl : \A j \in sl : j <= i
            IN SubSeq(s, last + 1, Len(s))

\* sep.join(parts)
RECURSIVE Join(_, _)
Join(sep, parts) ==
    IF parts = <<>> THEN ""
    ELSE IF Len(parts) = 1 THEN parts[1]
    ELSE parts[1] \o sep \o Join(sep, Tail(parts))

---------------------------------------------------------------------------
(* JSON values, and the exceptions Python raises on them *)

JNull == [t |-> "null"]
JStr(s) == [t |-> "str", s |-> s]
JList(xs) == [t |-> "list", xs |-> xs]
JObj(f) == [t |-> "obj", f |-> f]

\* the outcome of evaluating an expression: a value, or an exception raised
Ok(v) == [ok |-> TRUE, v |-> v, exc |-> ""]
Raise(e) == [ok |-> FALSE, v |-> JNull, exc |-> e]

\* v.get(key, default): dict.get for a dict; a list, a str and None have no
\* attribute "get"
Get(v, key, default) ==
    IF v.t = "obj"
    THEN Ok(IF key \in DOMAIN v.f THEN v.f[key] ELSE default)
    ELSE Raise("AttributeError")

\* v[0]
Index0(v) ==
    CASE v.t = "list" -> IF v.xs = <<>> THEN Raise("IndexError") ELSE Ok(v.xs[1])
      [] v.t = "obj"  -> Raise("KeyError")
      [] v.t = "str"  -> IF v.s = "" THEN Raise("IndexError")
                         ELSE Ok(JStr(SubSeq(v.s, 1, 1)))
      [] OTHER        -> Raise("TypeError")

\* f"{v}" for a value returned by call_llm
Format(v) ==
    CASE v.t = "str"  -> v.s
      [] v.t = "null" -> "None"
      [] v.t = "list" -> "[...]"
      [] OTHER        -> "{...}"

\* result.get("choices", [{}])[0].get("message", {}).get("content", "No result!"):
\* an exception raised by one step ends the evaluation
Content(result) ==
    LET empty == JObj(<<>>)
        choices == Get(result, "choices", JList(<<empty>>))
        first   == IF choices.ok THEN Index0(choices.v) ELSE choices
        message == IF first.ok THEN Get(first.v, "message", empty) ELSE first
    IN IF message.ok THEN Get(message.v, "content", JStr("No result!")) ELSE message

---------------------------------------------------------------------------
(* call_llm *)

ErrNoKey == "Error: PERPLEXITY_API_KEY not set."

\* the exceptions that are requests.RequestException
RequestExceptions == {"ConnectionError", "Timeout", "HTTPError", "requests.JSONDecodeError"}

\* What the remote end and the installed requests do with one POST:
\*   net    "ok", or the exception requests.post raises
\*   status the HTTP status
\*   text   the body, response.text
\*   json   the body parsed, when parsed is TRUE
\*   jsonError  what response.json() raises on a body that is no JSON: a
\*          requests.JSONDecodeError (requests >= 2.27) or a ValueError
Reply(net, status, text, parsed, json, jsonError) ==
    [net |-> net, status |-> status, text |-> text, parsed |-> parsed,
     json |-> json, jsonError |-> jsonError]

\* The body of the try block, lines 22-42: the value returned or the
\* exception raised.
TryPost(reply) ==
    IF reply.net # "ok" THEN Raise(reply.net)
    ELSE IF reply.status >= 400 THEN Raise("HTTPError")
    ELSE IF ~reply.parsed THEN Raise(reply.jsonError)
    ELSE Content(reply.json)

\* call_llm without the check of lines 18-19: the request is sent whatever
\* the credential
CallLlmNoKeyCheck(key, reply) ==
    LET r == TryPost(reply)
    IN [posted |-> TRUE, raised |-> FALSE, exc |-> "",
        value  |-> IF r.ok THEN r.v
                   ELSE JStr("Error calling Perplexity API: " \o r.exc)]

\* call_llm(prompt): [posted, raised, exc, value]; posted tells whether
\* requests.post was called, raised whether an exception left the function
CallLlm(key, reply) ==
    IF ~Truthy(key)
    THEN [posted |-> FALSE, raised |-> FALSE, exc |-> "", value |-> JStr(ErrNoKey)]
    ELSE LET r == TryPost(reply)
         IN CASE r.ok ->
                   [posted |-> TRUE, raised |-> FALSE, exc |-> "", value |-> r.v]
              [] r.exc \in RequestExceptions ->
                   [posted |-> TRUE, raised |-> FALSE, exc |-> "",
                    value |-> JStr("Error calling Perplexity API: " \o r.exc)]
              [] r.exc \in {"KeyError", "IndexError"} ->
                   [posted |-> TRUE, raised |-> FALSE, exc |-> "",
                    value |-> JStr("Error parsing API response: " \o reply.text)]
              [] OTHER ->
                   [posted |-> TRUE, raised |-> TRUE, exc |-> r.exc, value |-> JNull]

\* The replies the model draws from.
GoodBody == JObj([k \in {"choices"} |->
               JList(<<JObj([m \in {"message"} |->
                         JObj([c \in {"content"} |-> JStr("def test_a(): ...")])])>>)])

Replies ==
    {Reply(n, 0, "", FALSE, JNull, "ValueError") : n \in {"ConnectionError", "Timeout"}}
    \cup {Reply("ok", 500, "server error", FALSE, JNull, "ValueError")}
    \cup {Reply("ok", 200, "<html>", FALSE, JNull, e) :
              e \in {"requests.JSONDecodeError", "ValueError"}}
    \cup {Reply("ok", 200, "json", TRUE, j, "ValueError") :
              j \in {GoodBody,
                     JObj(<<>>),
                     JList(<<>>),
                     JNull,
                     JObj([k \in {"choices"} |-> JList(<<>>)]),
                     JObj([k \in {"choices"} |-> JList(<<JNull>>)]),
                     JObj([k \in {"choices"} |->
                        JList(<<JObj([m \in {"message"} |-> JNull])>>)]),
                     JObj([k \in {"choices"} |->
                        JList(<<JObj([m \in {"message"} |->
                           JObj([c \in {"content"} |-> JNull])])>>)])}}

---------------------------------------------------------------------------
(* The segmenter, the prompt builders and the report *)

\* len(py_diff) > 4000, py_diff[:4000]
MaxDiffLen == 4000

\* openapi_content[:1000]
MaxApiLen == 1000

TruncationSuffix == "\n... (diff truncated)"

\* f.endswith(".py") and ("backend/" in f or "server/" in f)
IsPyFile(f) == EndsWith(f, ".py") /\ (Contains(f, "backend/") \/ Contains(f, "server/"))

\* ("web/src/" in f) and (f.endswith((".tsx", ".jsx", ".ts")))
IsFeFile(f) ==
    Contains(f, "web/src/") /\ (EndsWith(f, ".tsx") \/ EndsWith(f, ".jsx") \/ EndsWith(f, ".ts"))

\* any(line.startswith(f"+++ b/{file}") for file in files)
IsTargetHeader(files, line) ==
    \E k \in 1..Len(files) : StartsWith(line, "+++ b/" \o files[k])

\* f"\n--- Changes for {line.split('/')[-1]} ---\n"
Marker(line) == "\n--- Changes for " \o LastSegment(line) \o " ---\n"

\* line.startswith(("+", "-")) and not line.startswith(("+++", "---"))
IsChangeLine(line) ==
    /\ StartsWith(line, "+") \/ StartsWith(line, "-")
    /\ ~(StartsWith(line, "+++") \/ StartsWith(line, "---"))

\* the loop body taking a changed line over without its sign
ScanLineUnsigned(files, sections, line) ==
    LET s1 == IF IsTargetHeader(files, line)
              THEN Append(sections, Marker(line))
              ELSE sections
    IN IF IsChangeLine(line) /\ s1 # <<>>
       THEN Append(s1, SubSeq(line, 2, Len(line)))
       ELSE s1

\* One pass of the scan's loop body over `line`: the sections after it.
ScanLine(files, sections, line) ==
    LET s1 == IF IsTargetHeader(files, line)
              THEN Append(sections, Marker(line))
              ELSE sections
    IN IF IsChangeLine(line) /\ s1 # <<>> THEN Append(s1, line) ELSE s1

\* the cut with >= for >: a text of exactly MaxDiffLen characters is cut too
TruncateAtLimit(d) ==
    IF Len(d) >= MaxDiffLen THEN Take(d, MaxDiffLen) \o TruncationSuffix ELSE d

\* the diff portion of the prompt: "\n".join(sections), cut when too long
Truncate(d) ==
    IF Len(d) > MaxDiffLen THEN Take(d, MaxDiffLen) \o TruncationSuffix ELSE d

DiffPortion(sections) == Truncate(Join("\n", sections))

\* api_context, lines 87-90
ApiContext(openapi) ==
    IF Truthy(openapi)
    THEN "Context from openapi.yaml:\n" \o Take(openapi.v, MaxApiLen)
    ELSE ""

\* the backend prompt, lines 93-105
PyPrompt(openapi, diff) ==
    "\n    You are a senior Python SWE reviewing a PR. Given the following git diff for Python files, generate suggested Pytest unit tests.\n"
    \o "    \n"
    \o "    - Focus *only* on the changed code.\n"
    \o "    - If API endpoints (views.py, serializers.py) are touched, include DRF API tests using APIClient.\n"
    \o "    - Cover edge cases and error conditions implied by the code.\n"
    \o "    - Return *only* the test code blocks, formatted in Markdown, with suggested file paths.\n"
    \o "    \n"
    \o "    " \o ApiContext(openapi) \o "\n"
    \o "    \n"
    \o "    Git Diff:\n"
    \o "    " \o diff \o "\n"
    \o "    "

\* the frontend prompt, lines 136-146
FePrompt(diff) ==
    "\n    You are a senior Frontend Engineer. Given the following git diff for React/TypeScript files, generate suggested Vitest + React Testing Library (RTL) tests.\n"
    \o "    \n"
    \o "    - Focus *only* on the changed components or hooks.\n"
    \o "    - Mock any API calls or external dependencies.\n"
    \o "    - Cover new UI states, user interactions, or logic.\n"
    \o "    - Return *only* the test code blocks, formatted in Markdown, with suggested file paths.\n"
    \o "    \n"
    \o "    Git Diff:\n"
    \o "    " \o diff \o "\n"
    \o "    "

PyHeading == "### :snake: Backend Test Suggestions\n\n"
FeHeading == "### :atom: Frontend Test Suggestions\n\n"

\* the value handle_python_changes returns after the model call
PyBlock(suggestions) == PyHeading \o suggestions \o "\n\n"

\* the value handle_frontend_changes returns after the model call
FeBlock(suggestions) == FeHeading \o suggestions \o "\n\n"

Intro == "Here are some AI-generated suggestions based on your changes:\n\n"
Fallback == "AI analysis complete. No specific test suggestions for this diff."
Separator == "\n---\n"

RECURSIVE Reverse(_)
Reverse(xs) == IF xs = <<>> THEN <<>> ELSE Append(Reverse(Tail(xs)), Head(xs))

\* the report with its blocks in the opposite order
ReportLastFirst(all) == IF all = <<>> THEN Fallback ELSE Intro \o Join(Separator, Reverse(all))

\* output_content, lines 187-191
Report(all) == IF all = <<>> THEN Fallback ELSE Intro \o Join(Separator, all)

ReadError == "Error: Could not read diff or changed files list."

---------------------------------------------------------------------------
(* Files *)

Missing == [st |-> "missing", text |-> ""]
Unreadable == [st |-> "unreadable", text |-> ""]
Readable(t) == [st |-> "ok", text |-> t]

\* get_file_content(file_path): the content, None for a file that does not
\* exist (FileNotFoundError); any other error of open() or read() leaves the
\* function
GetFileContent(file) ==
    CASE file.st = "ok"      -> [raised |-> FALSE, exc |-> "", value |-> Some(file.text)]
      [] file.st = "missing" -> [raised |-> FALSE, exc |-> "", value |-> None]
      [] OTHER               -> [raised |-> TRUE, exc |-> "PermissionError", value |-> None]

\* what the output path holds before the run
OldReport == "report of an earlier run"

---------------------------------------------------------------------------
(* The inputs the model draws from *)

RECURSIVE RepeatX(_)
RepeatX(n) ==
    IF n = 0 THEN ""
    ELSE IF n % 2 = 1 THEN "x" \o RepeatX(n - 1)
    ELSE LET h == RepeatX(n \div 2) IN h \o h

\* an added line so long that a marker for a four-letter file name, a line
\* feed and this line are MaxDiffLen characters together
LongLine == "+" \o RepeatX(MaxDiffLen - Len(Marker("a.py")) - 2)

PyPath == "backend/a.py"
FePath == "web/src/A.ts"
OtherPath == "docs/r.md"

DiffLineSet ==
    {"+++ b/" \o PyPath,            \* header of a backend file
     "+++ b/" \o PyPath \o ".bak",  \* header of another file, PyPath a prefix
     "+++ b/" \o FePath,            \* header of a frontend file
     "+++ b/" \o OtherPath,         \* header of a file of no category
     "--- a/" \o PyPath,            \* the old-file header
     "+x=1", "-y=2", " z=3",        \* added, removed, context
     LongLine}

SeqsUpTo(S, n) == UNION {[1..k -> S] : k \in 0..n}

\* the lines, each ended by a line feed
RECURSIVE Text(_)
Text(ls) == IF ls = <<>> THEN "" ELSE Head(ls) \o "\n" \o Text(Tail(ls))

ChangedLists == {<<>>, <<PyPath>>, <<FePath>>, <<OtherPath>>, <<PyPath, FePath>>}

SampleDiffs ==
    {<<"+++ b/" \o PyPath, "+x=1">>,
     <<"+++ b/" \o FePath, "-y=2">>,
     <<"+++ b/" \o PyPath, "+x=1", "+++ b/" \o FePath, "-y=2">>,
     <<"+++ b/" \o OtherPath, "+x=1">>}

NoOpenapi == [given |-> FALSE, file |-> Missing]
Openapi(f) == [given |-> TRUE, file |-> f]

Input(key, diff, changed, openapi) ==
    [key |-> key, diff |-> diff, changed |-> changed, openapi |-> openapi]

\* no credential, every diff of at most MaxLines lines
ScanInputs ==
    {Input(None, Readable(Text(d)), Readable(Text(c)), NoOpenapi) :
        d \in SeqsUpTo(DiffLineSet, MaxLines), c \in ChangedLists}

\* a credential, or none, or an empty one; a few diffs
LlmInputs ==
    {Input(k, Readable(Text(d)), Readable(Text(c)), o) :
        k \in {Some("pplx-key"), Some(""), None}, d \in SampleDiffs,
        c \in {<<PyPath>>, <<FePath>>, <<FePath, OtherPath, PyPath>>},
        o \in {NoOpenapi, Openapi(Readable("openapi: 3.0.0"))}}

\* input files missing, unreadable or empty
FaultInputs ==
    LET files == {Missing, Unreadable, Readable(""),
                  Readable(Text(<<"+++ b/" \o PyPath, "+x=1">>))}
        lists == {Missing, Unreadable, Readable(""), Readable(Text(<<PyPath>>))}
    IN {Input(k, d, c, o) :
           k \in {Some("pplx-key"), None}, d \in files, c \in lists,
           o \in {NoOpenapi, Openapi(Missing), Openapi(Unreadable)}}

Inputs == ScanInputs \cup LlmInputs \cup FaultInputs

---------------------------------------------------------------------------
(* main *)

Init ==
    \E in \in Inputs :
        /\ pc = "start"
        /\ API_KEY = in.key
        /\ diffFile = in.diff
        /\ changedFile = in.changed
        /\ openapiArg = in.openapi
        /\ outFile = Readable(OldReport)
        /\ stdout = <<>>
        /\ diff_content = None
        /\ changed_files_list = None
        /\ openapi_content = None
        /\ changed_files = <<>>
        /\ lines = <<>>
        /\ idx = 1
        /\ py_files = <<>>
        /\ py_diff_sections = <<>>
        /\ py_src = <<>>
        /\ py_diff = ""
        /\ py_suggestions = ""
        /\ fe_files = <<>>
        /\ fe_diff_sections = <<>>
        /\ fe_src = <<>>
        /\ fe_diff = ""
        /\ fe_suggestions = ""
        /\ prompt = ""
        /\ all_suggestions = <<>>
        /\ llm = <<>>
        /\ events = <<>>
        /\ exception = ""

inputVars == <<API_KEY, diffFile, changedFile, openapiArg>>
pyVars == <<py_files, py_diff_sections, py_src, py_diff, py_suggestions>>
feVars == <<fe_files, fe_diff_sections, fe_src, fe_diff, fe_suggestions>>
readVars == <<diff_content, changed_files_list, openapi_content, changed_files>>

\* an uncaught exception ends the process
Crash(exc) == pc' = "crashed" /\ exception' = exc

\* lines 161-169: read the files; return when the diff or the list is falsy
ReadInputs ==
    /\ pc = "start"
    /\ LET d == GetFileContent(diffFile)
           c == GetFileContent(changedFile)
           o == IF openapiArg.given THEN GetFileContent(openapiArg.file)
                ELSE [raised |-> FALSE, exc |-> "", value |-> None]
       IN IF d.raised \/ c.raised \/ o.raised
          THEN /\ Crash(IF d.raised THEN d.exc ELSE IF c.raised THEN c.exc ELSE o.exc)
               /\ UNCHANGED <<readVars, stdout>>
          ELSE /\ diff_content' = d.value
               /\ changed_files_list' = c.value
               /\ openapi_content' = o.value
               /\ exception' = exception
               /\ IF ~Truthy(d.value) \/ ~Truthy(c.value)
                  THEN /\ stdout' = Append(stdout, ReadError)
                       /\ pc' = "returned"
                       /\ changed_files' = changed_files
                  ELSE /\ changed_files' = SplitLines(c.value.v)
                       /\ pc' = "py_select"
                       /\ stdout' = stdout
    /\ UNCHANGED <<inputVars, outFile, lines, idx, pyVars, feVars, prompt,
                   all_suggestions, llm, events>>

\* lines 175, 62-68: select the backend files; none: return ""
PySelect ==
    /\ pc = "py_select"
    /\ py_files' = SelectSeq(changed_files, IsPyFile)
    /\ events' = Append(events, "py_begin")
    /\ IF py_files' = <<>>
       THEN pc' = "fe_select" /\ UNCHANGED <<lines, idx>>
       ELSE pc' = "py_scan" /\ lines' = SplitLines(diff_content.v) /\ idx' = 1
    /\ UNCHANGED <<inputVars, outFile, stdout, readVars, py_diff_sections, py_src,
                   py_diff, py_suggestions, feVars, prompt, all_suggestions, llm,
                   exception>>

\* the source indices of the elements a scan step added
Grown(src, before, after, i) == src \o [k \in 1..(Len(after) - Len(before)) |-> i]

\* lines 69-74: one line of the scan
PyScanLine ==
    /\ pc = "py_scan"
    /\ idx <= Len(lines)
    /\ py_diff_sections' = ScanLine(py_files, py_diff_sections, lines[idx])
    /\ py_src' = Grown(py_src, py_diff_sections, py_diff_sections', idx)
    /\ idx' = idx + 1
    /\ UNCHANGED <<pc, inputVars, outFile, stdout, readVars, lines, py_files, py_diff,
                   py_suggestions, feVars, prompt, all_suggestions, llm, events,
                   exception>>

\* lines 76-105: nothing collected: return ""; else build the prompt
PyBuildPrompt ==
    /\ pc = "py_scan"
    /\ idx > Len(lines)
    /\ IF py_diff_sections = <<>>
       THEN pc' = "fe_select" /\ UNCHANGED <<py_diff, prompt>>
       ELSE /\ py_diff' = DiffPortion(py_diff_sections)
            /\ prompt' = PyPrompt(openapi_content, py_diff')
            /\ pc' = "py_call"
    /\ UNCHANGED <<inputVars, outFile, stdout, readVars, lines, idx, py_files,
                   py_diff_sections, py_src, py_suggestions, feVars, all_suggestions,
                   llm, events, exception>>

\* one invocation of call_llm, as the history keeps it
Invocation(cat, r) ==
    [cat |-> cat, posted |-> r.posted, raised |-> r.raised,
     isStr |-> ~r.raised /\ r.value.t = "str", text |-> Format(r.value)]

\* lines 107-108, 176-177: the model call, the block, all_suggestions
PyCall ==
    /\ pc = "py_call"
    /\ \E reply \in Replies :
          LET r == CallLlm(API_KEY, reply)
          IN /\ llm' = Append(llm, Invocation("py", r))
             /\ IF r.raised
                THEN /\ Crash(r.exc)
                     /\ UNCHANGED <<py_suggestions, all_suggestions>>
                     /\ events' = Append(events, "py_call")
                ELSE /\ py_suggestions' = PyBlock(Format(r.value))
                     /\ all_suggestions' = Append(all_suggestions, py_suggestions')
                     /\ events' = events \o <<"py_call", "py_return">>
                     /\ pc' = "fe_select"
                     /\ exception' = exception
    /\ UNCHANGED <<inputVars, outFile, stdout, readVars, lines, idx, py_files,
                   py_diff_sections, py_src, py_diff, feVars, prompt>>

\* lines 180, 115-121: select the frontend files; none: return ""
FeSelect ==
    /\ pc = "fe_select"
    /\ fe_files' = SelectSeq(changed_files, IsFeFile)
    /\ events' = Append(events, "fe_begin")
    /\ IF fe_files' = <<>>
       THEN pc' = "write" /\ UNCHANGED <<lines, idx>>
       ELSE pc' = "fe_scan" /\ lines' = SplitLines(diff_content.v) /\ idx' = 1
    /\ UNCHANGED <<inputVars, outFile, stdout, readVars, pyVars, fe_diff_sections,
                   fe_src, fe_diff, fe_suggestions, prompt, all_suggestions, llm,
                   exception>>

\* lines 121-126: one line of the scan
FeScanLine ==
    /\ pc = "fe_scan"
    /\ idx <= Len(lines)
    /\ fe_diff_sections' = ScanLine(fe_files, fe_diff_sections, lines[idx])
    /\ fe_src' = Grown(fe_src, fe_diff_sections, fe_diff_sections', idx)
    /\ idx' = idx + 1
    /\ UNCHANGED <<pc, inputVars, outFile, stdout, readVars, lines, pyVars, fe_files,
                   fe_diff, fe_suggestions, prompt, all_suggestions, llm, events,
                   exception>>

\* lines 128-146: nothing collected: return ""; else build the prompt
FeBuildPrompt ==
    /\ pc = "fe_scan"
    /\ idx > Len(lines)
    /\ IF fe_diff_sections = <<>>
       THEN pc' = "write" /\ UNCHANGED <<fe_diff, prompt>>
       ELSE /\ fe_diff' = DiffPortion(fe_diff_sections)
            /\ prompt' = FePrompt(fe_diff')
            /\ pc' = "fe_call"
    /\ UNCHANGED <<inputVars, outFile, stdout, readVars, lines, idx, pyVars, fe_files,
                   fe_diff_sections, fe_src, fe_suggestions, all_suggestions, llm,
                   events, exception>>

\* lines 148-149, 181-182: the model call, the block, all_suggestions
FeCall ==
    /\ pc = "fe_call"
    /\ \E reply \in Replies :
          LET r == CallLlm(API_KEY, reply)
          IN /\ llm' = Append(llm, Invocation("fe", r))
             /\ IF r.raised
                THEN /\ Crash(r.exc)
                     /\ UNCHANGED <<fe_suggestions, all_suggestions>>
                     /\ events' = Append(events, "fe_call")
                ELSE /\ fe_suggestions' = FeBlock(Format(r.value))
                     /\ all_suggestions' = Append(all_suggestions, fe_suggestions')
                     /\ events' = events \o <<"fe_call", "fe_return">>
                     /\ pc' = "write"
                     /\ exception' = exception
    /\ UNCHANGED <<inputVars, outFile, stdout, readVars, lines, idx, pyVars, fe_files,
                   fe_diff_sections, fe_src, fe_diff, prompt>>

\* lines 187-196: write the report over whatever the output path held
WriteOutput ==
    /\ pc = "write"
    /\ outFile' = Readable(Report(all_suggestions))
    /\ stdout' = Append(stdout, "Suggestions written to out")
    /\ events' = Append(events, "write")
    /\ pc' = "done"
    /\ UNCHANGED <<inputVars, readVars, lines, idx, pyVars, feVars, prompt,
                   all_suggestions, llm, exception>>

Next ==
    \/ ReadInputs
    \/ PySelect
    \/ PyScanLine
    \/ PyBuildPrompt
    \/ PyCall
    \/ FeSelect
    \/ FeScanLine
    \/ FeBuildPrompt
    \/ FeCall
    \/ WriteOutput

Spec == Init /\ [][Next]_vars

---------------------------------------------------------------------------
(* Definitions the properties share *)

\* the whole scan, lines 68-74 and 120-126: ScanLine over every line in order
RECURSIVE Segment(_, _, _)
Segment(files, ls, sections) ==
    IF ls = <<>> THEN sections
    ELSE Segment(files, Tail(ls), ScanLine(files, sections, Head(ls)))

Terminated == pc \in {"done", "returned", "crashed"}

InSeq(x, xs) == \E k \in 1..Len(xs) : xs[k] = x

\* line is the "+++ b/<path>" header of one of files
IsHeaderOf(files, line) == \E k \in 1..Len(files) : line = "+++ b/" \o files[k]

\* line is the "+++ b/<path>" header of some file
IsHeader(line) == StartsWith(line, "+++ b/")

\* the header of the diff section that line j lies in: the last header at or
\* before j, 0 when there is none
SectionHeader(j) ==
    LET hs == {i \in 1..j : IsHeader(lines[i])}
    IN IF hs = {} THEN 0 ELSE CHOOSE i \in hs : \A h \in hs : h <= i

\* element k of a segment is a diff line taken over, not a marker
IsTakenLine(sections, src, k) == sections[k] = lines[src[k]]

\* a is b with some elements left out
RECURSIVE IsSubseq(_, _)
IsSubseq(a, b) ==
    IF a = <<>> THEN TRUE
    ELSE IF b = <<>> THEN FALSE
    ELSE IF Head(a) = Head(b) THEN IsSubseq(Tail(a), Tail(b))
    ELSE IsSubseq(a, Tail(b))

IsMarkerElement(e) == StartsWith(e, "\n--- Changes for ")
NotMarkerElement(e) == ~IsMarkerElement(e)

---------------------------------------------------------------------------
(* C1 *)

NoForeignLines(files, sections, src) ==
    \A k \in 1..Len(sections) :
        IsTakenLine(sections, src, k) =>
            LET h == SectionHeader(src[k])
            IN h # 0 => IsHeaderOf(files, lines[h])

\* C1: a segment never holds an added or removed line that lies in the diff
\* section of a file outside the category's selected paths: the header of
\* such a file stops the collection.
C1_NoLinesOfOtherFiles ==
    /\ NoForeignLines(py_files, py_diff_sections, py_src)
    /\ NoForeignLines(fe_files, fe_diff_sections, fe_src)

---------------------------------------------------------------------------
(* C2 *)

\* C2: once the run over an existing diff and changed-file list has ended,
\* the output path holds the fallback sentence exactly when both segmenters
\* give the empty sequence for these inputs, an empty diff or list included.
C2_FallbackIffBothEmpty ==
    (Terminated /\ exception = "" /\ diffFile.st = "ok" /\ changedFile.st = "ok") =>
        LET ls == SplitLines(diffFile.text)
            cf == SplitLines(changedFile.text)
            py == Segment(SelectSeq(cf, IsPyFile), ls, <<>>)
            fe == Segment(SelectSeq(cf, IsFeFile), ls, <<>>)
        IN (outFile.text = Fallback) <=> (py = <<>> /\ fe = <<>>)

---------------------------------------------------------------------------
(* C3 *)

\* C3: no exception leaves call_llm, whatever the remote call does, and what
\* it returns is a string.
C3_CallLlmNeverRaises ==
    \A i \in 1..Len(llm) : ~llm[i].raised /\ llm[i].isStr

---------------------------------------------------------------------------
(* C4 *)

\* C4: when the diff or the changed-file list is missing or unreadable, main
\* prints its error and returns, no model call is made and the output path
\* keeps what it held.
C4_BadInputAborts ==
    (diffFile.st # "ok" \/ changedFile.st # "ok") =>
        /\ llm = <<>>
        /\ outFile = Readable(OldReport)
        /\ pc # "start" => (pc = "returned" /\ stdout = <<ReadError>>)

---------------------------------------------------------------------------
(* C5 *)

\* C5: without the credential every call_llm returns the fixed error string
\* and posts nothing; a run that came to a model call goes on to write the
\* output file, and the string stands in the block of every category whose
\* segment is not empty.
C5_NoKeyShortCircuits ==
    ~Truthy(API_KEY) =>
        /\ \A i \in 1..Len(llm) :
              ~llm[i].posted /\ ~llm[i].raised /\ llm[i].text = ErrNoKey
        /\ llm # <<>> =>
              /\ pc \in {"fe_select", "fe_scan", "fe_call", "write", "done"}
              /\ exception = ""
        /\ pc = "done" =>
              /\ outFile.text # OldReport
              /\ py_diff_sections # <<>> => Contains(outFile.text, PyBlock(ErrNoKey))
              /\ fe_diff_sections # <<>> => Contains(outFile.text, FeBlock(ErrNoKey))

\* both categories had a segment, no credential, the report is written
C5_Witness ==
    /\ API_KEY = None
    /\ pc = "done"
    /\ py_diff_sections # <<>>
    /\ fe_diff_sections # <<>>
    /\ Len(llm) = 2

---------------------------------------------------------------------------
(* C6 *)

PyBuilt == py_diff_sections # <<>> /\ pc \notin {"start", "py_select", "py_scan"}
FeBuilt == fe_diff_sections # <<>> /\ pc \notin {"start", "py_select", "py_scan", "py_call",
                                                  "fe_select", "fe_scan"}

\* the diff portion is the joined text, or its first MaxDiffLen characters
\* and then suffix
CutWith(portion, sections, suffix) ==
    LET joined == Join("\n", sections)
    IN /\ Len(joined) <= MaxDiffLen => portion = joined
       /\ Len(joined) > MaxDiffLen =>
             portion = SubSeq(joined, 1, MaxDiffLen) \o suffix
       /\ Len(portion) <= MaxDiffLen + Len(suffix)

\* C6 as amended: the diff portion of the prompt is the joined segment when
\* that has at most 4000 characters, and else its first 4000 characters, a
\* line feed and "... (diff truncated)": never more than 4000 + 21
\* characters; and the prompt handed to the model ends with it.
C6_TruncatedWithLineFeed ==
    /\ PyBuilt => CutWith(py_diff, py_diff_sections, "\n... (diff truncated)")
    /\ FeBuilt => CutWith(fe_diff, fe_diff_sections, "\n... (diff truncated)")
    /\ pc = "py_call" => EndsWith(prompt, py_diff \o "\n    ")
    /\ pc = "fe_call" => EndsWith(prompt, fe_diff \o "\n    ")

\* C6 as claimed: what follows the first 4000 characters is exactly
\* "... (diff truncated)", so the portion has at most 4000 + 20 characters.
C6_TruncatedAsClaimed ==
    /\ PyBuilt => CutWith(py_diff, py_diff_sections, "... (diff truncated)")
    /\ FeBuilt => CutWith(fe_diff, fe_diff_sections, "... (diff truncated)")

\* a backend segment that was cut, on its way to the model
C6_Witness ==
    /\ pc = "py_call"
    /\ Len(Join("\n", py_diff_sections)) > MaxDiffLen
    /\ Len(py_diff) = MaxDiffLen + 21

---------------------------------------------------------------------------
(* C7 *)

\* C7 as amended: at every step of the scan, the elements of a segment other
\* than the inserted markers are lines of the diff, in the diff's order.
C7_LinesAreSubsequence ==
    /\ IsSubseq(SelectSeq(py_diff_sections, NotMarkerElement), lines)
    /\ IsSubseq(SelectSeq(fe_diff_sections, NotMarkerElement), lines)

\* C7 as claimed: every element of a segment is a line of the diff, in the
\* diff's order.
C7_SegmentIsSubsequence ==
    /\ IsSubseq(py_diff_sections, lines)
    /\ IsSubseq(fe_diff_sections, lines)

\* a segment with a marker and two lines taken from the diff
C7_Witness ==
    /\ Len(py_diff_sections) = 3
    /\ IsMarkerElement(py_diff_sections[1])
    /\ py_diff_sections[2] # py_diff_sections[3]
    /\ NotMarkerElement(py_diff_sections[2]) /\ NotMarkerElement(py_diff_sections[3])

---------------------------------------------------------------------------
(* C8 *)

Happened(e) == InSeq(e, events)

\* C8: the run's steps come in the order backend segmentation, backend call,
\* its return, frontend segmentation, frontend call, its return, write;
\* the frontend part starts only after a backend call has returned, the file
\* is written only after both parts are over, and a report of two blocks is
\* the backend block, the rule, the frontend block.
C8_Sequential ==
    /\ IsSubseq(events, <<"py_begin", "py_call", "py_return",
                          "fe_begin", "fe_call", "fe_return", "write">>)
    /\ Happened("fe_begin") /\ Happened("py_call") => Happened("py_return")
    /\ pc \in {"fe_scan", "fe_call"} => Happened("fe_begin") /\ ~Happened("write")
    /\ pc \in {"py_scan", "py_call"} => ~Happened("fe_begin")
    /\ Len(llm) > 0 => llm[1].cat = "py" \/ Len(llm) = 1
    /\ Len(llm) = 2 => llm[1].cat = "py" /\ llm[2].cat = "fe" /\ Happened("py_return")
    /\ Happened("write") =>
          /\ Happened("fe_begin")
          /\ Happened("py_call") => Happened("py_return")
          /\ Happened("fe_call") => Happened("fe_return")
    /\ outFile.text # OldReport => Happened("write")
    /\ (pc = "done" /\ py_suggestions # "" /\ fe_suggestions # "") =>
          outFile.text = Intro \o py_suggestions \o "\n---\n" \o fe_suggestions

\* both calls were posted and answered, and the report holds both blocks
C8_Witness ==
    /\ pc = "done"
    /\ Len(llm) = 2
    /\ llm[1].posted /\ llm[2].posted
    /\ py_suggestions # "" /\ fe_suggestions # ""

---------------------------------------------------------------------------
(* C9 *)

NoHeaderOf(files) == \A i \in 1..Len(lines) : ~IsHeaderOf(files, lines[i])

\* C9: a category none of whose selected paths has its "+++ b/<path>" header
\* in the diff (a category that selects nothing included) has an empty
\* segment, makes no model call and gives no block.
C9_NoHeaderNoBlock ==
    /\ NoHeaderOf(py_files) =>
          /\ py_diff_sections = <<>>
          /\ py_suggestions = ""
          /\ \A i \in 1..Len(llm) : llm[i].cat # "py"
    /\ NoHeaderOf(fe_files) =>
          /\ fe_diff_sections = <<>>
          /\ fe_suggestions = ""
          /\ \A i \in 1..Len(llm) : llm[i].cat # "fe"

---------------------------------------------------------------------------
(* C10 *)

SegmentWellFormed(files, sections, src) ==
    \A k \in 1..Len(sections) :
        \/ \E f \in 1..Len(files) :
              sections[k] = "\n--- Changes for " \o LastSegment(files[f]) \o " ---\n"
        \/ /\ IsTakenLine(sections, src, k)
           /\ IsChangeLine(sections[k])
           /\ \E h \in 1..(src[k] - 1) : IsHeaderOf(files, lines[h])

\* C10: at every step of the scan each element of the segment is a marker
\* naming, by its last path segment, a selected file, or an added or removed
\* line that stands in the diff after the header of a selected file.
C10_SegmentWellFormed ==
    /\ SegmentWellFormed(py_files, py_diff_sections, py_src)
    /\ SegmentWellFormed(fe_files, fe_diff_sections, fe_src)

====
